---- MODULE Spec2Model ----
(***************************************************************************)
(* Symbolic indexing of mapped arrays (nitorch/io/mapping.py).             *)
(*                                                                         *)
(* The model is a heap of view objects (MappedArray and CatArray) and the  *)
(* record of the last call made on one of them.  Every operation of the    *)
(* source is one action: it picks a receiver in the heap, draws its        *)
(* arguments from small sets, and runs the method as the source runs it,   *)
(* statement by statement, on the heap.                                    *)
(*                                                                         *)
(* nitorch/io/indexing.py (expand_index, compose_index, the is_* tests,    *)
(* invert_permutation) and nitorch/spatial (affine_sub, affine_permute)    *)
(* are modelled from the specification, sections 4.1 and 4.2.              *)
(***************************************************************************)
EXTENDS Integers, Sequences, FiniteSets, TLC

VARIABLES heap, last

vars == <<heap, last>>

(***************************************************************************)
(* Bounds of the model.                                                    *)
(***************************************************************************)
\* an operation is started only while the heap holds fewer objects
MaxObjs == 4

(***************************************************************************)
(* Python values.                                                          *)
(***************************************************************************)
\* Python's None in an integer position (a slice bound, _dim_cat)
None == 1000

Min(a, b) == IF a < b THEN a ELSE b
Max(a, b) == IF a > b THEN a ELSE b

\* Python's // (floor division), either sign of the divisor
FloorDiv(a, b) == IF b > 0 THEN a \div b ELSE (0 - a) \div (0 - b)

\* Python's seq[i] with a possibly negative i: the position, or 0 (IndexError)
PyPos(n, i) == IF i >= 0 /\ i < n THEN i + 1
               ELSE IF i < 0 /\ i >= 0 - n THEN n + i + 1
               ELSE 0

\* sum of a sequence of integers
RECURSIVE SumSeq(_)
SumSeq(s) == IF s = <<>> THEN 0 ELSE s[1] + SumSeq(Tail(s))

\* del seq[i], i a legal position
DelAt(s, p) == SubSeq(s, 1, p - 1) \o SubSeq(s, p + 1, Len(s))

\* seq[i] = v, i a legal position
SetAt(s, p, v) == [s EXCEPT ![p] = v]

(***************************************************************************)
(* Index elements: an integer, a slice, a new axis (None) or an ellipsis.  *)
(***************************************************************************)
Idx(i) == [t |-> "int", start |-> i, stop |-> 0, step |-> 0]
Slice(a, b, c) == [t |-> "slice", start |-> a, stop |-> b, step |-> c]
NewAxis == [t |-> "new", start |-> 0, stop |-> 0, step |-> 0]
Ellipsis == [t |-> "ellipsis", start |-> 0, stop |-> 0, step |-> 0]
FullSlice == Slice(None, None, None)

\* [slice(None)] * n
Full(n) == [k \in 1..n |-> FullSlice]

is_newaxis(e) == e.t = "new"
is_droppedaxis(e) == e.t = "int"
is_sliceaxis(e) == e.t = "slice"

\* number of elements selected by a slice whose bounds are resolved
SliceLen(e) ==
    IF e.step > 0 THEN Max(0, (e.stop - e.start + e.step - 1) \div e.step)
    ELSE Max(0, (e.start - e.stop - e.step - 1) \div (0 - e.step))

\* the positions a resolved slice selects, in order
SlicePositions(e) == [k \in 1..SliceLen(e) |-> e.start + (k - 1) * e.step]

\* one bound of a slice resolved against an axis of n elements
ResolveBound(v, n, lo, hi, dflt) ==
    IF v = None THEN dflt
    ELSE IF v < 0 THEN Max(v + n, lo)
    ELSE Min(v, hi)

\* a slice resolved against an axis of n elements: explicit start, stop, step
ResolveSlice(e, n) ==
    LET step == IF e.step = None THEN 1 ELSE e.step
        lo == IF step > 0 THEN 0 ELSE 0 - 1
        hi == IF step > 0 THEN n ELSE n - 1
    IN Slice(ResolveBound(e.start, n, lo, hi, IF step > 0 THEN lo ELSE hi),
             ResolveBound(e.stop, n, lo, hi, IF step > 0 THEN hi ELSE lo),
             step)

\* the index with its ellipsis, or its missing tail, filled with full slices
FillIndex(index, shape) ==
    LET nOld == Cardinality({k \in 1..Len(index) :
                               index[k].t \in {"int", "slice"}})
        full == [k \in 1..(Len(shape) - nOld) |-> FullSlice]
        ell == {k \in 1..Len(index) : index[k].t = "ellipsis"}
    IN IF ell = {} THEN index \o full
       ELSE LET p == CHOOSE p \in ell : TRUE
            IN SubSeq(index, 1, p - 1) \o full \o SubSeq(index, p + 1, Len(index))

\* the axis of the shape that element k of a filled index consumes
AxisOf(index, k) == Cardinality({j \in 1..(k - 1) : ~is_newaxis(index[j])}) + 1

\* expand_index(index, shape): [err, index, shape]
expand_index(index, shape) ==
    LET nEll == Cardinality({k \in 1..Len(index) : index[k].t = "ellipsis"})
        nOld == Cardinality({k \in 1..Len(index) :
                               index[k].t \in {"int", "slice"}})
        filled == FillIndex(index, shape)
        size(k) == shape[AxisOf(filled, k)]
        bad == \E k \in 1..Len(filled) :
                  /\ is_droppedaxis(filled[k])
                  /\ \/ filled[k].start >= size(k)
                     \/ filled[k].start < 0 - size(k)
        res == [k \in 1..Len(filled) |->
                  IF is_newaxis(filled[k]) THEN NewAxis
                  ELSE IF is_droppedaxis(filled[k])
                       THEN Idx(IF filled[k].start < 0
                                THEN filled[k].start + size(k)
                                ELSE filled[k].start)
                       ELSE ResolveSlice(filled[k], size(k))]
        ext == [k \in 1..Len(filled) |->
                  IF is_newaxis(res[k]) THEN 1
                  ELSE IF is_droppedaxis(res[k]) THEN 0 - 1
                  ELSE SliceLen(res[k])]
    IN IF nEll > 1 \/ nOld > Len(shape) THEN [err |-> TRUE, index |-> <<>>, shape |-> <<>>]
       ELSE IF bad THEN [err |-> TRUE, index |-> <<>>, shape |-> <<>>]
       ELSE [err |-> FALSE, index |-> res,
             shape |-> SelectSeq(ext, LAMBDA x : x >= 0)]

\* one element of the view's slicer composed with the element that indexes it
compose_one(p, c) ==
    IF is_newaxis(p)
    THEN IF is_droppedaxis(c) THEN <<>> ELSE <<NewAxis>>
    ELSE IF is_droppedaxis(c)
         THEN <<Idx(p.start + c.start * p.step)>>
         ELSE LET start == p.start + c.start * p.step
                  step == p.step * c.step
              IN <<Slice(start, start + SliceLen(c) * step, step)>>

\* compose_index(parent, child): the single index against the original axes
RECURSIVE compose_walk(_, _, _, _)
compose_walk(parent, child, i, j) ==
    IF i > Len(parent) THEN SubSeq(child, j, Len(child))
    ELSE IF is_droppedaxis(parent[i])
         THEN <<parent[i]>> \o compose_walk(parent, child, i + 1, j)
    ELSE IF j > Len(child) THEN SubSeq(parent, i, Len(parent))
    ELSE IF is_newaxis(child[j])
         THEN <<NewAxis>> \o compose_walk(parent, child, i, j + 1)
    ELSE compose_one(parent[i], child[j])
             \o compose_walk(parent, child, i + 1, j + 1)

compose_index(parent, child) == compose_walk(parent, child, 1, 1)

\* invert_permutation(perm): iperm[perm[j]] = j (0-based values)
invert_permutation(perm) ==
    [k \in 1..Len(perm) |-> (CHOOSE j \in 1..Len(perm) : perm[j] = k - 1) - 1]

(***************************************************************************)
(* The affine, as the integer map it applies in front of the original      *)
(* voxel-to-world matrix: column k of the linear part is sc times the      *)
(* column ax of the original matrix, and the translation is the original   *)
(* matrix applied to the voxel off.                                        *)
(***************************************************************************)
NoAffine == [none |-> TRUE, lin |-> <<>>, off |-> <<>>]

\* the affine of an array stored with m spatial axes
NativeAffine(m) == [none |-> FALSE,
                    lin |-> [k \in 1..m |-> [ax |-> k, sc |-> 1]],
                    off |-> [k \in 1..m |-> 0]]

\* affine_sub(affine, shape, index): the affine of the sub-lattice
affine_sub(affine, shape, index) ==
    LET n == Min(Len(affine.lin), Len(index))
        col(k) == IF k > n THEN [keep |-> TRUE, ax |-> affine.lin[k].ax,
                                 sc |-> affine.lin[k].sc]
                  ELSE IF is_droppedaxis(index[k])
                       THEN [keep |-> FALSE, ax |-> affine.lin[k].ax, sc |-> 0]
                       ELSE [keep |-> TRUE, ax |-> affine.lin[k].ax,
                             sc |-> affine.lin[k].sc * index[k].step]
        cols == SelectSeq([k \in 1..Len(affine.lin) |-> col(k)],
                          LAMBDA c : c.keep)
        shift(a) == LET ks == {k \in 1..n : affine.lin[k].ax = a}
                    IN IF ks = {} THEN 0
                       ELSE LET k == CHOOSE k \in ks : TRUE
                            IN affine.lin[k].sc * index[k].start
    IN [none |-> FALSE,
        lin |-> [k \in 1..Len(cols) |-> [ax |-> cols[k].ax, sc |-> cols[k].sc]],
        off |-> [a \in 1..Len(affine.off) |-> affine.off[a] + shift(a)]]

\* affine_permute(affine, shape, perm): the columns reordered by perm
affine_permute(affine, shape, perm) ==
    IF affine.none THEN affine
    ELSE [affine EXCEPT !.lin = [k \in 1..Len(perm) |-> affine.lin[perm[k] + 1]]]

(***************************************************************************)
(* Objects.  A MappedArray carries the class attributes of mapping.py; a  *)
(* CatArray carries its own shape, its members (_arrays, references into   *)
(* the heap) and _dim_cat, its other attributes being properties computed  *)
(* from the members.                                                       *)
(***************************************************************************)
NoSlicer == [none |-> TRUE, idx |-> <<>>]
SomeSlicer(index) == [none |-> FALSE, idx |-> index]

\* MappedArray.__init__ / _init of a concrete array with this on-disk layout
MappedArray_init(fname, shape, spatial, affine) ==
    [kind |-> "arr", fname |-> fname,
     _shape |-> shape, _spatial |-> spatial, _affine |-> affine,
     shape |-> shape, spatial |-> spatial, affine |-> affine,
     slicer |-> NoSlicer,
     permutation |-> [k \in 1..Len(shape) |-> k - 1],
     _arrays |-> <<>>, _dim_cat |-> None]

\* the outcome of a call: the heap it leaves, what it raised, what it returned
Return(h, ret) == [heap |-> h, exc |-> "none", ret |-> ret]
Raise(h, exc) == [heap |-> h, exc |-> exc, ret |-> <<>>]

\* self.dim
self_dim(h, self) == Len(h[self].shape)

\* new = self: the receiver itself, where the code takes a copy of it
copy_alias(h, self) == [heap |-> h, ref |-> self]

\* copy(self): a new object with the same attributes
copy(h, self) == [heap |-> Append(h, h[self]), ref |-> Len(h) + 1]

\* new.attr = value
setattr(h, ref, attr, value) == [h EXCEPT ![ref] = [@ EXCEPT ![attr] = value]]

(***************************************************************************)
(* MappedArray.slice                                                       *)
(***************************************************************************)
\* lines 117-127: the affine of the sliced view
slice_affine(o, index) ==
    IF o.affine.none THEN NoAffine
    ELSE LET msk == o.spatial
             spatial_shape == LET n == Min(Len(o.shape), Len(msk))
                                  keep == {k \in 1..n : msk[k]}
                              IN [k \in 1..n |-> IF k \in keep THEN o.shape[k] ELSE 0 - 1]
             cand == SelectSeq(index, LAMBDA e : is_sliceaxis(e)
                                        \/ (is_droppedaxis(e) /\ e.start >= 0))
             n2 == Min(Len(cand), Len(msk))
             tagged == [k \in 1..n2 |-> [e |-> cand[k], m |-> msk[k]]]
             picked == SelectSeq(tagged, LAMBDA x : x.m)
             spatial_index == [k \in 1..Len(picked) |-> picked[k].e]
         IN affine_sub(o.affine, SelectSeq(spatial_shape, LAMBDA x : x >= 0),
                       spatial_index)

\* lines 135-146: the spatial mask of the sliced view, [err, spatial]
slice_spatial(o, index) ==
    LET i(k) == Cardinality({j \in 1..(k - 1) : ~is_newaxis(index[j])})
        orig(k) == LET p == PyPos(Len(o.permutation), i(k))
                   IN IF p = 0 THEN 0
                      ELSE PyPos(Len(o._spatial), o.permutation[p])
        used == {k \in 1..Len(index) :
                    ~is_newaxis(index[k]) /\ ~is_droppedaxis(index[k])}
        msk == [k \in 1..Len(index) |->
                  IF is_newaxis(index[k]) THEN "F"
                  ELSE IF is_droppedaxis(index[k]) THEN "-"
                  ELSE IF orig(k) = 0 THEN "?"
                  ELSE IF o._spatial[orig(k)] THEN "T" ELSE "F"]
        kept == SelectSeq(msk, LAMBDA x : x # "-")
    IN [err |-> \E k \in used : orig(k) = 0,
        spatial |-> [k \in 1..Len(kept) |-> kept[k] = "T"]]

\* lines 146-148: the mask stored, or the IndexError of line 144
slice_finish(h, new, sp) ==
    IF sp.err THEN Raise(h, "IndexError")
    ELSE Return(setattr(h, new, "spatial", sp.spatial), <<new>>)

\* lines 113-134: the copy and its shape, affine and slicer
slice_build(c, o, index, new_shape) ==
    slice_finish(
        setattr(setattr(setattr(c.heap, c.ref, "shape", new_shape),
                        c.ref, "affine", slice_affine(o, index)),
                c.ref, "slicer",
                IF o.slicer.none THEN SomeSlicer(index)
                ELSE SomeSlicer(compose_index(o.slicer.idx, index))),
        c.ref, slice_spatial(o, index))

\* lines 109-148, on the expanded index
slice_expanded(h, self, ex) ==
    IF ex.err THEN Raise(h, "IndexError")
    ELSE slice_build(copy(h, self), h[self], ex.index, ex.shape)

\* MappedArray.slice(self, index, new_shape, _pre_expanded)
MappedArray_slice(h, self, index, new_shape, _pre_expanded) ==
    slice_expanded(h, self,
        IF _pre_expanded
        THEN [err |-> FALSE, index |-> index, shape |-> new_shape]
        ELSE expand_index(index, h[self].shape))

(***************************************************************************)
(* MappedArray.permute                                                     *)
(***************************************************************************)
\* lines 202-214: the slicer and the permutation walked along dims
RECURSIVE permute_walk(_, _, _, _, _, _)
permute_walk(o, dims, k, n_dropped, slicer, dim_map) ==
    IF k > Len(dims) THEN [exc |-> "none", slicer |-> slicer, dim_map |-> dim_map]
    ELSE IF o.slicer.none THEN [exc |-> "TypeError", slicer |-> <<>>, dim_map |-> <<>>]
    ELSE LET n_slicer == k - 1
             ps == PyPos(Len(o.slicer.idx), n_slicer)
             bad == [exc |-> "IndexError", slicer |-> <<>>, dim_map |-> <<>>]
         IN IF ps = 0 THEN bad
            ELSE IF is_droppedaxis(o.slicer.idx[ps])
            THEN LET pp == PyPos(Len(o.permutation), n_slicer)
                 IN IF pp = 0 THEN bad
                    ELSE permute_walk(o, dims, k + 1, n_dropped + 1,
                                      Append(slicer, o.slicer.idx[ps]),
                                      Append(dim_map, o.permutation[pp]))
            ELSE LET qs == PyPos(Len(o.slicer.idx), dims[k] + n_dropped)
                     qp == PyPos(Len(o.permutation), dims[k] + n_dropped)
                 IN IF qs = 0 \/ qp = 0 THEN bad
                    ELSE permute_walk(o, dims, k + 1, n_dropped,
                                      Append(slicer, o.slicer.idx[qs]),
                                      Append(dim_map, o.permutation[qp]))

\* sorted(range(len(s)), key=lambda k: s[k])
argsort(s) ==
    [r \in 1..Len(s) |->
        (CHOOSE k \in 1..Len(s) :
            Cardinality({j \in 1..Len(s) :
                s[j] < s[k] \/ (s[j] = s[k] /\ j < k)}) = r - 1) - 1]

\* MappedArray.permute(self, dims)
MappedArray_permute(h, self, dims) ==
    LET o == h[self]
        n == Len(o.shape)
    IN IF Len(dims) # n \/ Cardinality({dims[k] : k \in 1..Len(dims)}) # Len(dims)
       THEN Raise(h, "ValueError")
       ELSE IF \E k \in 1..Len(dims) :
                   PyPos(n, dims[k]) = 0 \/ PyPos(Len(o.spatial), dims[k]) = 0
       THEN Raise(h, "IndexError")
       ELSE LET shape == [k \in 1..Len(dims) |-> o.shape[PyPos(n, dims[k])]]
                spatial == [k \in 1..Len(dims) |->
                              o.spatial[PyPos(Len(o.spatial), dims[k])]]
                w == permute_walk(o, dims, 1, 0, <<>>, <<>>)
                perm_spatial == argsort(SelectSeq(dims,
                                  LAMBDA p : o.spatial[PyPos(Len(o.spatial), p)]))
            IN IF w.exc # "none" THEN Raise(h, w.exc)
               ELSE IF ~o.affine.none /\ Len(perm_spatial) # Len(o.affine.lin)
               THEN Raise(h, "IndexError")
               ELSE LET affine == affine_permute(o.affine, o.shape, perm_spatial)
                        c == copy(h, self)
                        new == c.ref
                        h1 == setattr(c.heap, new, "shape", shape)
                        h2 == setattr(h1, new, "spatial", spatial)
                        h3 == setattr(h2, new, "permutation", w.dim_map)
                        h4 == setattr(h3, new, "slicer", SomeSlicer(w.slicer))
                        h5 == setattr(h4, new, "affine", affine)
                    IN Return(h5, <<new>>)

(***************************************************************************)
(* Calls on the members of a CatArray.  The members are MappedArrays: a    *)
(* CatArray is not concatenated again in this model.                       *)
(***************************************************************************)
\* the outcome of a list of calls extended by the outcome of the next call
then_call(prev, r) ==
    IF r.exc # "none" THEN Raise(r.heap, r.exc)
    ELSE Return(r.heap, prev.ret \o r.ret)

\* [ids[k][indices[k]] for k], left to right, stopping at the first raise
RECURSIVE member_getitem_each(_, _, _, _)
member_getitem_each(prev, ids, indices, k) ==
    IF k > Len(ids) \/ prev.exc # "none" THEN prev
    ELSE member_getitem_each(
             then_call(prev, MappedArray_slice(prev.heap, ids[k], indices[k],
                                               <<>>, FALSE)),
             ids, indices, k + 1)

\* [array.permute(dims) for array in ids], stopping at the first raise
RECURSIVE member_permute_each(_, _, _, _)
member_permute_each(prev, ids, dims, k) ==
    IF k > Len(ids) \/ prev.exc # "none" THEN prev
    ELSE member_permute_each(
             then_call(prev, MappedArray_permute(prev.heap, ids[k], dims)),
             ids, dims, k + 1)

(***************************************************************************)
(* CatArray                                                                *)
(***************************************************************************)
\* CatArray.__init__ comparing the whole shapes, the concatenated axis included
CatArray_init_nodel(h, arrays, dim0) ==
    LET dim == IF dim0 = None THEN 0 ELSE dim0
        pos(a) == PyPos(Len(h[a].shape), dim)
    IN IF \E k \in 1..Len(arrays) : pos(arrays[k]) = 0 THEN Raise(h, "IndexError")
       ELSE IF Len(arrays) = 0 THEN Raise(h, "ValueError")
       ELSE IF \E k \in 2..Len(arrays) : h[arrays[k]].shape # h[arrays[1]].shape
       THEN Raise(h, "ValueError")
       ELSE LET dims == [k \in 1..Len(arrays) |-> h[arrays[k]].shape[pos(arrays[k])]]
                shape == SetAt(h[arrays[1]].shape, pos(arrays[1]), SumSeq(dims))
                new == [kind |-> "cat", fname |-> "",
                        _shape |-> <<>>, _spatial |-> <<>>, _affine |-> NoAffine,
                        shape |-> shape, spatial |-> <<>>, affine |-> NoAffine,
                        slicer |-> NoSlicer, permutation |-> <<>>,
                        _arrays |-> arrays, _dim_cat |-> dim]
            IN Return(Append(h, new), <<Len(h) + 1>>)

\* CatArray.__init__(arrays, dim): the object built, or the exception
CatArray_init(h, arrays, dim0) ==
    LET dim == IF dim0 = None THEN 0 ELSE dim0
        pos(a) == PyPos(Len(h[a].shape), dim)
        shapes == [k \in 1..Len(arrays) |->
                     DelAt(h[arrays[k]].shape, pos(arrays[k]))]
    IN IF \E k \in 1..Len(arrays) : pos(arrays[k]) = 0 THEN Raise(h, "IndexError")
       ELSE IF Len(arrays) = 0 THEN Raise(h, "ValueError")
       ELSE IF \E k \in 2..Len(arrays) : shapes[k] # shapes[1]
       THEN Raise(h, "ValueError")
       ELSE LET dims == [k \in 1..Len(arrays) |-> h[arrays[k]].shape[pos(arrays[k])]]
                shape == SetAt(h[arrays[1]].shape, pos(arrays[1]), SumSeq(dims))
                new == [kind |-> "cat", fname |-> "",
                        _shape |-> <<>>, _spatial |-> <<>>, _affine |-> NoAffine,
                        shape |-> shape, spatial |-> <<>>, affine |-> NoAffine,
                        slicer |-> NoSlicer, permutation |-> <<>>,
                        _arrays |-> arrays, _dim_cat |-> dim]
            IN Return(Append(h, new), <<Len(h) + 1>>)

\* lines 693-708: the index element of the concatenated axis and new_dim_cat
RECURSIVE find_cat(_, _, _, _, _)
find_cat(index, k, new_dim_cat, nb_old_dim, dim_cat) ==
    LET idx == index[k]
        ndc == IF is_newaxis(idx) THEN new_dim_cat + 1
               ELSE IF is_droppedaxis(idx) THEN new_dim_cat - 1
               ELSE new_dim_cat
        nod == IF is_newaxis(idx) THEN nb_old_dim ELSE nb_old_dim + 1
    IN IF nod >= dim_cat \/ k = Len(index)
       THEN [map_dim_cat |-> k - 1, new_dim_cat |-> ndc]
       ELSE find_cat(index, k + 1, ndc, nod, dim_cat)

\* array.shape[self._dim_cat] of a member
size_cat(h, array, dim_cat) == h[array].shape[PyPos(Len(h[array].shape), dim_cat)]

\* lines 713-725: the member an integer on the concatenated axis falls in
RECURSIVE drop_walk(_, _, _, _, _, _)
drop_walk(h, arrays, i, nb_pre, index_cat, dim_cat) ==
    IF i >= Len(arrays) THEN [found |-> FALSE, i |-> 0, index_cat |-> 0]
    ELSE IF nb_pre < index_cat
    THEN drop_walk(h, arrays, i + 1, nb_pre + size_cat(h, arrays[i + 1], dim_cat),
                   index_cat, dim_cat)
    ELSE LET past == i > index_cat
             i2 == IF past THEN i - 1 ELSE i
             nb2 == IF past THEN nb_pre - size_cat(h, arrays[i2 + 1], dim_cat)
                    ELSE nb_pre
         IN [found |-> TRUE, i |-> i2, index_cat |-> index_cat - nb2]

\* lines 740-775: the members kept by a forward slice, with their bounds
RECURSIVE keep_walk(_, _, _, _, _, _, _, _, _, _)
keep_walk(h, arrays, k, nb_pre, kept_arrays, starts, stops, size_since_start, index_cat, dim_cat) ==
    IF k > Len(arrays)
    THEN [exc |-> "none", kept_arrays |-> kept_arrays, starts |-> starts,
          stops |-> stops]
    ELSE LET array == arrays[k]
             sz == size_cat(h, array, dim_cat)
         IN IF nb_pre + sz < index_cat.start
            THEN keep_walk(h, arrays, k + 1, nb_pre + sz, kept_arrays, starts,
                           stops, size_since_start, index_cat, dim_cat)
            ELSE LET first == nb_pre < index_cat.start
                     other == ~first /\ nb_pre < index_cat.stop
                     skip == size_since_start
                               - FloorDiv(size_since_start, index_cat.step)
                                   * index_cat.step
                     kept2 == IF first \/ other THEN Append(kept_arrays, array)
                              ELSE kept_arrays
                     starts2 == IF first
                                THEN Append(starts, index_cat.start - nb_pre)
                                ELSE IF other THEN Append(starts, skip)
                                ELSE starts
                 IN IF starts2 = <<>>
                    THEN [exc |-> "IndexError", kept_arrays |-> kept2,
                          starts |-> starts2, stops |-> stops]
                    ELSE LET nb_elem_total ==
                                 FloorDiv(index_cat.stop - index_cat.start,
                                          index_cat.step)
                             nb_elem_prev ==
                                 FloorDiv(size_since_start, index_cat.step)
                             nb_elem_remaining == nb_elem_total - nb_elem_prev
                             nb_elem_this_volume ==
                                 FloorDiv(sz - starts2[Len(starts2)],
                                          index_cat.step)
                         IN IF nb_elem_this_volume <= nb_elem_remaining
                            THEN [exc |-> "none", kept_arrays |-> kept2,
                                  starts |-> starts2,
                                  stops |-> Append(stops, index_cat.stop - nb_pre)]
                            ELSE keep_walk(h, arrays, k + 1, nb_pre + sz, kept2,
                                           starts2, Append(stops, None),
                                           size_since_start + sz,
                                           index_cat, dim_cat)

\* lines 785-787 without the assignment of _dim_cat
cat_slice_set_samedim(c, arrays, new_dim_cat) ==
    Return(setattr(c.heap, c.ref, "_arrays", arrays), <<c.ref>>)

\* lines 785-787: the members and the axis of the new CatArray
cat_slice_set(c, arrays, new_dim_cat) ==
    Return(setattr(setattr(c.heap, c.ref, "_arrays", arrays),
                   c.ref, "_dim_cat", new_dim_cat),
           <<c.ref>>)

\* lines 783-787: the new CatArray over the sliced members
cat_slice_new(sub, self, new_dim_cat) ==
    IF sub.exc # "none" THEN sub
    ELSE cat_slice_set(copy(sub.heap, self), sub.ret, new_dim_cat)

\* lines 777-781: the kept members sliced, zip stopping at the shortest list
cat_slice_kept(h, self, index, mpos, step, new_dim_cat, w) ==
    IF w.exc # "none" THEN Raise(h, w.exc)
    ELSE cat_slice_new(
             member_getitem_each(Return(h, <<>>),
                 SubSeq(w.kept_arrays, 1,
                        Min(Len(w.kept_arrays), Min(Len(w.starts), Len(w.stops)))),
                 [k \in 1..Min(Len(w.kept_arrays), Min(Len(w.starts), Len(w.stops)))
                    |-> SetAt(index, mpos, Slice(w.starts[k], w.stops[k], step))],
                 1),
             self, new_dim_cat)

\* lines 740-781 on the arrays and the forward slice of the concatenated axis
cat_slice_walk(inv, self, dim_cat, index, mpos, index_cat, new_dim_cat) ==
    IF inv.exc # "none" THEN inv
    ELSE cat_slice_kept(inv.heap, self, index, mpos, index_cat.step, new_dim_cat,
             keep_walk(inv.heap, inv.ret, 1, 0, <<>>, <<>>, <<>>, 0,
                       index_cat, dim_cat))

\* lines 731-738: a negative step inverts the members and the slice
cat_slice_forward(h, o, self, index, mpos, index_cat, new_dim_cat) ==
    IF index_cat.step < 0
    THEN cat_slice_walk(
             member_getitem_each(Return(h, <<>>), o._arrays,
                 [k \in 1..Len(o._arrays) |->
                     SetAt(Full(Len(o.shape)), PyPos(Len(o.shape), o._dim_cat),
                           Slice(None, None, 0 - 1))],
                 1),
             self, o._dim_cat, index, mpos,
             Slice(o.shape[PyPos(Len(o.shape), o._dim_cat)] - index_cat.start,
                   o.shape[PyPos(Len(o.shape), o._dim_cat)] - index_cat.stop,
                   0 - index_cat.step),
             new_dim_cat)
    ELSE cat_slice_walk(Return(h, o._arrays), self, o._dim_cat, index, mpos,
                        index_cat, new_dim_cat)

\* lines 710-725: an integer on the concatenated axis returns a sliced member
cat_slice_dropped(h, o, index, new_shape, mpos, d) ==
    IF d.found
    THEN MappedArray_slice(h, o._arrays[d.i + 1],
                           SetAt(index, mpos, Idx(d.index_cat)), new_shape, TRUE)
    ELSE Raise(h, "AssertionError")

\* lines 708-787 once the element of the concatenated axis is located
cat_slice_located(h, o, self, index, new_shape, f) ==
    IF is_droppedaxis(index[f.map_dim_cat + 1])
    THEN cat_slice_dropped(h, o, index, new_shape, f.map_dim_cat + 1,
             drop_walk(h, o._arrays, 0, 0, index[f.map_dim_cat + 1].start,
                       o._dim_cat))
    ELSE IF ~is_sliceaxis(index[f.map_dim_cat + 1]) THEN Raise(h, "AssertionError")
    ELSE cat_slice_forward(h, o, self, index, f.map_dim_cat + 1,
                           index[f.map_dim_cat + 1], f.new_dim_cat)

\* lines 683-787 on the expanded index
cat_slice_expanded(h, o, self, ex) ==
    IF ex.err THEN Raise(h, "IndexError")
    ELSE IF Len(ex.index) = 0 THEN Raise(h, "AssertionError")
    ELSE IF PyPos(Len(o.shape), o._dim_cat) = 0
            \/ \E k \in 1..Len(o._arrays) :
                  PyPos(Len(h[o._arrays[k]].shape), o._dim_cat) = 0
    THEN Raise(h, "IndexError")
    ELSE cat_slice_located(h, o, self, ex.index, ex.shape,
             find_cat(ex.index, 1, o._dim_cat, 0 - 1, o._dim_cat))

\* CatArray.slice(self, index, new_shape, _pre_expanded)
CatArray_slice(h, self, index, new_shape, _pre_expanded) ==
    cat_slice_expanded(h, h[self], self,
        IF _pre_expanded
        THEN [err |-> FALSE, index |-> index, shape |-> new_shape]
        ELSE expand_index(index, h[self].shape))

\* lines 793-795: the concatenated axis moved through the inverse permutation
cat_permute_finish(r, new, dims) ==
    IF r.exc # "none" THEN r
    ELSE IF {dims[k] : k \in 1..Len(dims)} # 0..(Len(dims) - 1)
            \/ PyPos(Len(dims), r.heap[new]._dim_cat) = 0
    THEN Raise(setattr(r.heap, new, "_arrays", r.ret), "IndexError")
    ELSE Return(setattr(setattr(r.heap, new, "_arrays", r.ret), new, "_dim_cat",
                    invert_permutation(dims)[PyPos(Len(dims), r.heap[new]._dim_cat)]),
                <<new>>)

\* lines 791-792: the copy, and every member permuted
cat_permute_members(c, dims) ==
    cat_permute_finish(
        member_permute_each(Return(c.heap, <<>>), c.heap[c.ref]._arrays, dims, 1),
        c.ref, dims)

\* CatArray.permute(self, dims)
CatArray_permute(h, self, dims) == cat_permute_members(copy(h, self), dims)

(***************************************************************************)
(* Method dispatch: array[index] and array.permute(dims) run the method of *)
(* the receiver's class.                                                   *)
(***************************************************************************)
\* __getitem__(self, index), lines 67-84
getitem(h, self, index) ==
    IF h[self].kind = "cat" THEN CatArray_slice(h, self, index, <<>>, FALSE)
    ELSE MappedArray_slice(h, self, index, <<>>, FALSE)

permute_method(h, self, dims) ==
    IF h[self].kind = "cat" THEN CatArray_permute(h, self, dims)
    ELSE MappedArray_permute(h, self, dims)

\* [self[index] for index in indices], stopping at the first raise
RECURSIVE getitem_each(_, _, _, _)
getitem_each(prev, ids, indices, k) ==
    IF k > Len(ids) \/ prev.exc # "none" THEN prev
    ELSE getitem_each(then_call(prev, getitem(prev.heap, ids[k], indices[k])),
                      ids, indices, k + 1)

(***************************************************************************)
(* The derived family of MappedArray: all of them go through __getitem__   *)
(* or permute of the receiver.                                             *)
(***************************************************************************)
\* Python's lst[:d] bound for a list of n elements
PyCut(n, d) == IF d < 0 THEN Max(0, n + d) ELSE Min(d, n)

\* MappedArray.transpose(self, dim0, dim1)
MappedArray_transpose(h, self, dim0, dim1) ==
    LET n == self_dim(h, self)
        permutation == [k \in 1..n |-> k - 1]
    IN IF PyPos(n, dim0) = 0 \/ PyPos(n, dim1) = 0 THEN Raise(h, "IndexError")
       ELSE permute_method(h, self,
                SetAt(SetAt(permutation, PyPos(n, dim0), dim1),
                      PyPos(n, dim1), dim0))

\* MappedArray.unsqueeze(self, dim)
MappedArray_unsqueeze(h, self, dim0) ==
    LET n == self_dim(h, self)
        d == IF dim0 < 0 THEN n + dim0 ELSE dim0
        cut == PyCut(n, d)
        index == [k \in 1..(n + 1) |-> IF k = cut + 1 THEN NewAxis ELSE FullSlice]
    IN getitem(h, self, index)

\* MappedArray.squeeze(self, dim): args holds the positional arguments given
MappedArray_squeeze(h, self, args) ==
    LET n == self_dim(h, self)
        shape == h[self].shape
    IN IF Len(args) = 0 THEN Raise(h, "TypeError")
       ELSE LET ds == IF args[1] = None
                      THEN {d \in 0..(n - 1) : shape[d + 1] = 1}
                      ELSE {args[1]}
            IN IF \E d \in ds : PyPos(n, d) = 0 THEN Raise(h, "IndexError")
               ELSE IF \E d \in ds : shape[PyPos(n, d)] # 1
               THEN Raise(h, "ValueError")
               ELSE getitem(h, self,
                        [k \in 1..n |-> IF (k - 1) \in ds THEN Idx(0)
                                        ELSE FullSlice])

\* MappedArray.unbind(self, dim, keepdim)
MappedArray_unbind(h, self, d, keepdim) ==
    LET n == self_dim(h, self)
        cut == PyCut(n, d + 1)
        base == IF keepdim
                THEN [k \in 1..(n + 1) |-> IF k = cut + 1 THEN NewAxis ELSE FullSlice]
                ELSE [k \in 1..n |-> FullSlice]
        p == PyPos(n, d)
        q == PyPos(Len(base), d)
    IN IF p = 0 THEN Raise(h, "IndexError")
       ELSE IF h[self].shape[p] > 0 /\ q = 0 THEN Raise(h, "IndexError")
       ELSE LET m == h[self].shape[p]
            IN getitem_each(Return(h, <<>>), [i \in 1..m |-> self],
                            [i \in 1..m |-> SetAt(base, q, Idx(i - 1))], 1)

\* MappedArray.chunk(self, chunks, dim)
MappedArray_chunk(h, self, chunks, d) ==
    LET n == self_dim(h, self)
        p == PyPos(n, d)
    IN IF p = 0 THEN Raise(h, "IndexError")
       ELSE LET m == h[self].shape[p]
                base == [k \in 1..n |-> FullSlice]
            IN getitem_each(Return(h, <<>>), [i \in 1..m |-> self],
                   [i \in 1..m |->
                       SetAt(base, p, Slice((i - 1) * chunks, i * chunks, None))],
                   1)

\* the slice bounds of split: previous_chunks before each chunk
RECURSIVE SumFirst(_, _)
SumFirst(s, k) == IF k = 0 THEN 0 ELSE s[k] + SumFirst(s, k - 1)

\* MappedArray.split(self, chunks, dim), chunks a list of sizes
MappedArray_split(h, self, chunks, d) ==
    LET n == self_dim(h, self)
        p == PyPos(n, d)
    IN IF p = 0 THEN Raise(h, "IndexError")
       ELSE IF SumSeq(chunks) # h[self].shape[p] THEN Raise(h, "ValueError")
       ELSE LET base == [k \in 1..n |-> FullSlice]
            IN getitem_each(Return(h, <<>>), [i \in 1..Len(chunks) |-> self],
                   [i \in 1..Len(chunks) |->
                       SetAt(base, p, Slice(SumFirst(chunks, i - 1),
                                            SumFirst(chunks, i - 1) + chunks[i],
                                            None))],
                   1)

(***************************************************************************)
(* CatArray.set_data / set_fdata: the pieces of the buffer handed to the   *)
(* members, each recorded as the index applied to the buffer.              *)
(***************************************************************************)
\* lines 826-831 and 835-840; hook: the member's class defines the method called
CatArray_set_data(h, self, hook) ==
    LET o == h[self]
        n == Len(o.shape)
        p == PyPos(n, o._dim_cat)
        size_prev == 0
        piece(array) ==
            SetAt([k \in 1..n |-> NewAxis], p,
                  Slice(size_prev, size_prev + size_cat(h, array, o._dim_cat), None))
        bad == {k \in 1..Len(o._arrays) :
                   PyPos(Len(h[o._arrays[k]].shape), o._dim_cat) = 0}
        done == IF bad = {} THEN Len(o._arrays)
                ELSE (CHOOSE k \in bad : \A j \in bad : k <= j) - 1
        writes == [k \in 1..done |->
                     [array |-> o._arrays[k], index |-> piece(o._arrays[k])]]
    IN IF Len(o._arrays) = 0 THEN [exc |-> "none", writes |-> <<>>]
       ELSE IF p = 0 \/ 1 \in bad THEN [exc |-> "IndexError", writes |-> <<>>]
       ELSE IF ~hook THEN [exc |-> "AttributeError", writes |-> <<>>]
       ELSE IF bad # {} THEN [exc |-> "IndexError", writes |-> writes]
       ELSE [exc |-> "none", writes |-> writes]

\* stack(arrays, dim), lines 888-889: unsqueeze is looked up on the sequence
\* arrays itself, which has no such attribute, once for each of its elements
stack(h, arrays, dim) ==
    IF Len(arrays) > 0 THEN Raise(h, "AttributeError")
    ELSE CatArray_init(h, arrays, dim)

(***************************************************************************)
(* MappedArray.fdata / set_fdata: the sanity checks and the call of the    *)
(* underlying data / set_data, recorded in io.                             *)
(***************************************************************************)
\* lines 342-358; floating: info['is_floating_point'] of the requested dtype
MappedArray_fdata(h, self, floating) ==
    IF ~floating THEN [exc |-> "TypeError", io |-> <<>>]
    ELSE [exc |-> "none", io |-> <<"data">>]

\* The buffers are a sequence bufs of sequences of values, a reference being a
\* position in it; bufs[1] is the buffer of the caller.  The values are
\* floating point numbers that the scalings drawn map exactly.
\* dat -= inter (line 434): in place, TypeError when inter is None
isub(bufs, dat, inter) ==
    IF inter = None THEN [exc |-> "TypeError", bufs |-> bufs, dat |-> dat]
    ELSE [exc |-> "none", dat |-> dat,
          bufs |-> [bufs EXCEPT ![dat] = [k \in 1..Len(@) |-> @[k] - inter]]]

\* dat /= slope (line 436): in place, TypeError when slope is None
idiv(bufs, dat, slope) ==
    IF slope = None THEN [exc |-> "TypeError", bufs |-> bufs, dat |-> dat]
    ELSE [exc |-> "none", dat |-> dat,
          bufs |-> [bufs EXCEPT ![dat] = [k \in 1..Len(@) |-> @[k] \div slope]]]

\* lines 433-436 on the buffer that line 432 left in dat
unscale_ops(u, inter, slope) ==
    IF inter # 0 /\ isub(u.bufs, u.dat, inter).exc # "none"
    THEN isub(u.bufs, u.dat, inter)
    ELSE IF slope = 1
    THEN (IF inter # 0 THEN isub(u.bufs, u.dat, inter) ELSE u)
    ELSE idiv((IF inter # 0 THEN isub(u.bufs, u.dat, inter) ELSE u).bufs,
              u.dat, slope)

\* lines 431-436 without the copy of line 432
set_fdata_unscale_inplace(bufs, dat, inter, slope) ==
    unscale_ops([exc |-> "none", bufs |-> bufs, dat |-> dat], inter, slope)

\* lines 431-436: the data unscaled, on a copy when there is a scaling
set_fdata_unscale(bufs, dat, inter, slope) ==
    IF inter # 0 \/ slope # 1
    THEN unscale_ops([exc |-> "none", bufs |-> Append(bufs, bufs[dat]),
                      dat |-> Len(bufs) + 1], inter, slope)
    ELSE [exc |-> "none", bufs |-> bufs, dat |-> dat]

\* lines 439-441: set_data (abstract, its body is pass) receives the buffer
set_fdata_send(u) ==
    IF u.exc # "none" THEN [exc |-> u.exc, io |-> <<>>, bufs |-> u.bufs, dat |-> 0]
    ELSE [exc |-> "none", io |-> <<"set_data">>, bufs |-> u.bufs, dat |-> u.dat]

\* set_fdata that hands the data to set_data before it looks at its shape
MappedArray_set_fdata_late(h, self, floating, dat_shape, bufs, inter, slope) ==
    IF ~floating THEN [exc |-> "TypeError", io |-> <<>>, bufs |-> bufs, dat |-> 0]
    ELSE IF dat_shape # h[self].shape
    THEN [exc |-> "TypeError", io |-> <<"set_data">>, bufs |-> bufs, dat |-> 1]
    ELSE set_fdata_send(set_fdata_unscale(bufs, 1, inter, slope))

\* lines 417-441; floating: info['is_floating_point'] of dat.dtype; bufs[1] is
\* dat; inter and slope are self.inter and self.slope
MappedArray_set_fdata(h, self, floating, dat_shape, bufs, inter, slope) ==
    IF ~floating THEN [exc |-> "TypeError", io |-> <<>>, bufs |-> bufs, dat |-> 0]
    ELSE IF dat_shape # h[self].shape
    THEN [exc |-> "TypeError", io |-> <<>>, bufs |-> bufs, dat |-> 0]
    ELSE set_fdata_send(set_fdata_unscale(bufs, 1, inter, slope))

(***************************************************************************)
(* The arguments the calls are made with.                                  *)
(***************************************************************************)
\* the arrays mapped before the first call: two arrays of one file format
NativeHeaps ==
    { << MappedArray_init("a", <<4, 5, 5>>, <<TRUE, TRUE, TRUE>>, NativeAffine(3)),
         MappedArray_init("b", <<6, 5, 5>>, <<TRUE, TRUE, TRUE>>, NativeAffine(3)) >>,
      << MappedArray_init("a", <<2, 3>>, <<TRUE, FALSE>>, NativeAffine(1)),
         MappedArray_init("b", <<2, 2>>, <<TRUE, FALSE>>, NativeAffine(1)) >>,
      << MappedArray_init("a", <<1, 2, 1>>, <<FALSE, FALSE, FALSE>>, NoAffine),
         MappedArray_init("b", <<1, 3, 1>>, <<FALSE, FALSE, FALSE>>, NoAffine) >> }

\* index elements drawn for an axis of n elements
ElemSet(n) ==
    { Idx(0), Idx(0 - 1), Idx(n),
      Slice(1, None, None), Slice(None, None, 2), Slice(None, None, 0 - 1) }

\* forward index elements drawn for an axis of n elements
ForwardSet(n) == { Idx(0), Slice(1, None, None) }

\* seq with x inserted before position p
InsertAt(s, p, x) == SubSeq(s, 1, p - 1) \o <<x>> \o SubSeq(s, p, Len(s))

\* indices that are not one element per axis
OddIndices(n) ==
    { <<>>, <<Ellipsis>>, <<Ellipsis, Idx(0)>>, <<Idx(0), NewAxis>>,
      <<Ellipsis, Ellipsis>>, Full(n), Full(n + 1),
      InsertAt(Full(n), 1, NewAxis), InsertAt(Full(n), n + 1, NewAxis) }

\* the indices a MappedArray of this shape is sliced with
IndexSet(shape) ==
    { SetAt(Full(Len(shape)), k, e) :
        <<k, e>> \in UNION { {k} \X ElemSet(shape[k]) : k \in 1..Len(shape) } }
    \cup OddIndices(Len(shape))

\* the steps drawn for a slice of the concatenated axis
MaxStep == 2

\* index elements drawn for a concatenated axis of n elements
CatElemSet(n) ==
    { Idx(g) : g \in 0..(n - 1) }
    \cup { Slice(a, b, st) : <<a, b, st>> \in
             { t \in (0..n) \X (0..n) \X (1..MaxStep) : t[1] <= t[2] } }
    \cup { Slice(None, None, 0 - st) : st \in 1..MaxStep }
    \cup { Slice(n - 1, 0, 0 - 1), Slice(None, None, None) }

\* the indices a CatArray is sliced with
CatIndexSet(o) ==
    LET n == Len(o.shape)
        p == PyPos(n, o._dim_cat)
    IN { SetAt(Full(n), p, e) : e \in CatElemSet(o.shape[p]) }
       \cup { SetAt(Full(n), k, e) :
                <<k, e>> \in UNION { {k} \X ForwardSet(o.shape[k]) :
                                       k \in (1..n) \ {p} } }
       \cup { <<>>, <<Ellipsis>>, InsertAt(Full(n), 1, NewAxis),
              InsertAt(Full(n), n + 1, NewAxis),
              InsertAt(SetAt(Full(n), 1, Idx(0)), 1, NewAxis) }

\* the current axes of a view that are new axes of its slicer
NewAxes(o) ==
    IF o.slicer.none THEN {}
    ELSE LET kept == SelectSeq(o.slicer.idx, LAMBDA e : ~is_droppedaxis(e))
         IN { j \in 1..Len(o.shape) : j <= Len(kept) /\ is_newaxis(kept[j]) }

\* the current axes that are new axes of the object, or of one of its members
NewAxesOf(h, self) ==
    IF h[self].kind = "cat"
    THEN UNION { NewAxes(h[h[self]._arrays[k]]) : k \in 1..Len(h[self]._arrays) }
    ELSE NewAxes(h[self])

\* the index leaves every new axis it slices its one element: compose_index
\* is specified to preserve a new axis, not to empty it
KeepsNewAxes(h, self, index) ==
    \A k \in 1..Len(index) :
        (is_sliceaxis(index[k]) /\ AxisOf(index, k) \in NewAxesOf(h, self))
            => SliceLen(ResolveSlice(index[k], 1)) = 1

\* the indices an object is sliced with
Indices(h, self) ==
    { index \in IF h[self].kind = "cat"
                THEN IF PyPos(Len(h[self].shape), h[self]._dim_cat) = 0 THEN {<<>>}
                     ELSE CatIndexSet(h[self])
                ELSE IndexSet(h[self].shape) :
        KeepsNewAxes(h, self, index) }

\* the permutations of 0..n-1
Perms(n) ==
    { p \in [1..n -> 0..(n - 1)] : \A i, j \in 1..n : i # j => p[i] # p[j] }

\* the axis orders permute is called with: the permutations and some that are not
DimsSet(n) ==
    Perms(n) \cup { [k \in 1..(n + 1) |-> k - 1], [k \in 1..n |-> 0],
                    [k \in 1..n |-> k] }

\* the (inter, slope) of a MappedArray: the class defaults (lines 28-29), no
\* scaling, and scalings with a shift, a slope or both
ScaleSet == { <<None, None>>, <<0, 1>>, <<2, 1>>, <<0, 2>>, <<2, 2>> }

\* the values of the buffer given to set_fdata
DatValues == <<2, 6>>

\* the axes the derived operations are called with
AxisSet(n) == { 0, n - 1, 0 - 1, n }

(***************************************************************************)
(* The state: the heap of objects, and the last call.                      *)
(***************************************************************************)
NoCall == [op |-> "none", self |-> 0, index |-> <<>>, dims |-> <<>>,
           args |-> <<>>, exc |-> "none", ret |-> <<>>, writes |-> <<>>,
           io |-> <<>>, scale |-> <<>>, dat |-> <<>>, bufs |-> <<>>, sent |-> 0]

Call(op, self, index, dims, args, r) ==
    [op |-> op, self |-> self, index |-> index, dims |-> dims, args |-> args,
     exc |-> r.exc, ret |-> r.ret, writes |-> <<>>, io |-> <<>>,
     scale |-> <<>>, dat |-> <<>>, bufs |-> <<>>, sent |-> 0]

Init == heap \in NativeHeaps /\ last = NoCall

Objs == 1..Len(heap)
Arrs == {a \in Objs : heap[a].kind = "arr"}
Cats == {a \in Objs : heap[a].kind = "cat"}
\* the calls that read or write the data
DataOps == {"fdata", "set_fdata", "set_data"}

\* a call is made while the program runs (nothing was raised) and the heap has
\* room; a run derives its views first and ends with its read or write
Room == Len(heap) < MaxObjs /\ last.exc = "none" /\ last.op \notin DataOps

\* array[index]
DoSlice ==
    \E self \in Objs : \E index \in Indices(heap, self) :
        LET r == getitem(heap, self, index)
        IN /\ Room
           /\ heap' = r.heap
           /\ last' = Call("slice", self, index, <<>>, <<>>, r)

\* array.permute(dims)
DoPermute ==
    \E self \in Objs : \E dims \in DimsSet(self_dim(heap, self)) :
        LET r == permute_method(heap, self, dims)
        IN /\ Room
           /\ heap' = r.heap
           /\ last' = Call("permute", self, <<>>, dims, <<>>, r)

\* array.transpose(dim0, dim1)
DoTranspose ==
    \E self \in Objs : \E dim0 \in {0} : \E dim1 \in {0, self_dim(heap, self) - 1, self_dim(heap, self)} :
        LET r == MappedArray_transpose(heap, self, dim0, dim1)
        IN /\ Room
           /\ heap' = r.heap
           /\ last' = Call("transpose", self, <<>>, <<>>, <<dim0, dim1>>, r)

\* array.unsqueeze(dim)
DoUnsqueeze ==
    \E self \in Objs : \E d \in AxisSet(self_dim(heap, self)) :
        LET r == MappedArray_unsqueeze(heap, self, d)
        IN /\ Room
           /\ heap' = r.heap
           /\ last' = Call("unsqueeze", self, <<>>, <<>>, <<d>>, r)

\* array.squeeze(), array.squeeze(None), array.squeeze(dim)
DoSqueeze ==
    \E self \in Objs :
      \E args \in {<<>>, <<None>>} \cup {<<d>> : d \in {0, 1, self_dim(heap, self)}} :
        LET r == MappedArray_squeeze(heap, self, args)
        IN /\ Room
           /\ heap' = r.heap
           /\ last' = Call("squeeze", self, <<>>, <<>>, args, r)

\* array.unbind(dim, keepdim)
DoUnbind ==
    \E self \in Objs : \E d \in {0, self_dim(heap, self) - 1} : \E keepdim \in BOOLEAN :
        LET r == MappedArray_unbind(heap, self, d, keepdim)
        IN /\ Room
           /\ heap' = r.heap
           /\ last' = Call("unbind", self, <<>>, <<>>,
                           <<d, IF keepdim THEN 1 ELSE 0>>, r)

\* array.chunk(chunks, dim) and array.split(chunks, dim) with an integer
DoChunk ==
    \E self \in Objs : \E chunks \in {1, 2} : \E d \in {0} :
      \E op \in {"chunk", "split"} :
        LET r == MappedArray_chunk(heap, self, chunks, d)
        IN /\ Room
           /\ heap' = r.heap
           /\ last' = Call(op, self, <<>>, <<>>, <<chunks, d>>, r)

\* array.split(chunks, dim) with a list of sizes
DoSplit ==
    \E self \in Objs : \E d \in {0, self_dim(heap, self) - 1} :
      \E chunks \in {<<1, 1>>, <<2, 1>>, <<1, 3>>} :
        LET r == MappedArray_split(heap, self, chunks, d)
        IN /\ Room
           /\ heap' = r.heap
           /\ last' = Call("splitlist", self, <<>>, <<>>, <<d>> \o chunks, r)

\* cat(arrays, dim)
DoCat ==
    \E arrays \in {<<>>} \cup {<<a>> : a \in Arrs}
                   \cup {p \in Arrs \X Arrs : p[1] <= p[2]} :
      \E d \in {None, 0, 1, 3, 0 - 1} :
        LET r == CatArray_init(heap, arrays, d)
        IN /\ Room
           /\ heap' = r.heap
           /\ last' = Call("cat", 0, <<>>, <<>>, <<d>> \o arrays, r)

\* stack(arrays, dim)
DoStack ==
    \E arrays \in {<<>>} \cup {<<a>> : a \in Arrs}
                   \cup {p \in Arrs \X Arrs : p[1] <= p[2]} :
      \E d \in {0, 1} :
        LET r == stack(heap, arrays, d)
        IN /\ Room
           /\ heap' = r.heap
           /\ last' = Call("stack", 0, <<>>, <<>>, <<d>> \o arrays, r)

\* array.set_data(dat) and array.set_fdata(dat) of a CatArray
DoSetData ==
    \E self \in Cats : \E hook \in BOOLEAN : \E op \in {"set_data", "set_fdata"} :
        LET r == CatArray_set_data(heap, self, hook)
        IN /\ Room
           /\ heap' = heap
           /\ last' = [NoCall EXCEPT !.op = op, !.self = self, !.exc = r.exc,
                                     !.writes = r.writes]

\* array.fdata(dtype=...) of a MappedArray
DoFdata ==
    \E self \in Arrs : \E floating \in BOOLEAN :
        LET r == MappedArray_fdata(heap, self, floating)
        IN /\ Room
           /\ heap' = heap
           /\ last' = [NoCall EXCEPT !.op = "fdata", !.self = self,
                                     !.args = <<IF floating THEN 1 ELSE 0>>,
                                     !.exc = r.exc, !.io = r.io]

\* array.set_fdata(dat) of a MappedArray whose subclass left or set
\* (inter, slope) = scale; last records the values of dat before the call, the
\* buffers after it (the first is dat) and the buffer set_data received
DoSetFdata ==
    \E self \in Arrs : \E floating \in BOOLEAN : \E scale \in ScaleSet :
      \E dat_shape \in {heap[self].shape, Append(heap[self].shape, 1)} :
        LET r == MappedArray_set_fdata(heap, self, floating, dat_shape,
                                       <<DatValues>>, scale[1], scale[2])
        IN /\ Room
           /\ heap' = heap
           /\ last' = [NoCall EXCEPT !.op = "set_fdata", !.self = self,
                                     !.args = <<IF floating THEN 1 ELSE 0>>,
                                     !.dims = dat_shape,
                                     !.exc = r.exc, !.io = r.io,
                                     !.scale = scale, !.dat = DatValues,
                                     !.bufs = r.bufs, !.sent = r.dat]

Next ==
    \/ DoSlice
    \/ DoPermute
    \/ DoTranspose
    \/ DoUnsqueeze
    \/ DoSqueeze
    \/ DoUnbind
    \/ DoChunk
    \/ DoSplit
    \/ DoCat
    \/ DoSetData
    \/ DoFdata
    \/ DoSetFdata
    \/ DoStack

Spec == Init /\ [][Next]_vars

\* the program that only slices: sequences of array[index] calls
NextSlice == DoSlice

SpecSlice == Init /\ [][NextSlice]_vars

(***************************************************************************)
(* Vocabulary of the properties.                                           *)
(***************************************************************************)
\* the operations that derive views from a view
ViewOps == {"slice", "permute", "transpose", "squeeze", "unsqueeze", "unbind",
            "chunk", "split", "splitlist"}

\* the operations that return one view
OneViewOps == {"slice", "permute", "transpose", "squeeze", "unsqueeze"}

\* the sequences of a sequence, end to end
RECURSIVE Flatten(_)
Flatten(ss) == IF ss = <<>> THEN <<>> ELSE ss[1] \o Flatten(Tail(ss))

\* the extents of the members of CatArray c along its concatenated axis
Extents(h, c) ==
    [k \in 1..Len(h[c]._arrays) |-> size_cat(h, h[c]._arrays[k], h[c]._dim_cat)]

\* the global position of the first element of member k of CatArray c
Offset(h, c, k) == SumSeq(SubSeq(Extents(h, c), 1, k - 1))

\* CatArray c as cat() built it from arrays of distinct files never sliced
FreshCat(h, c) ==
    /\ h[c].kind = "cat"
    /\ Len(h[c]._arrays) > 0
    /\ h[c]._dim_cat >= 0 /\ h[c]._dim_cat < Len(h[c].shape)
    /\ \A k \in 1..Len(h[c]._arrays) :
          /\ h[h[c]._arrays[k]].slicer.none
          /\ Len(h[h[c]._arrays[k]].shape) = Len(h[c].shape)
    /\ \A j, k \in 1..Len(h[c]._arrays) :
          j # k => h[h[c]._arrays[j]].fname # h[h[c]._arrays[k]].fname
    /\ h[c].shape[h[c]._dim_cat + 1] = SumSeq(Extents(h, c))

\* the member of CatArray c that maps file f
MemberOfFile(h, c, f) ==
    CHOOSE k \in 1..Len(h[c]._arrays) : h[h[c]._arrays[k]].fname = f

\* the positions of its file, along axis p, that view o selects, in order
LocalPositions(o, p) ==
    IF o.slicer.none THEN [j \in 1..o._shape[p] |-> j - 1]
    ELSE IF is_sliceaxis(o.slicer.idx[p]) THEN SlicePositions(o.slicer.idx[p])
    ELSE <<o.slicer.idx[p].start>>

\* the global positions, along the concatenated axis p of the fresh CatArray c,
\* that the views rets select, in the order of rets
GlobalPositions(h, c, rets, p) ==
    Flatten([k \in 1..Len(rets) |->
        [j \in 1..Len(LocalPositions(h[rets[k]], p)) |->
            Offset(h, c, MemberOfFile(h, c, h[rets[k]].fname))
                + LocalPositions(h[rets[k]], p)[j]]])

\* the last call sliced a fresh CatArray on its concatenated axis alone
CatAxisSliced ==
    /\ last.op = "slice"
    /\ FreshCat(heap, last.self)
    /\ Len(last.index) = Len(heap[last.self].shape)
    /\ last.index = SetAt(Full(Len(heap[last.self].shape)),
                          heap[last.self]._dim_cat + 1,
                          last.index[heap[last.self]._dim_cat + 1])

\* the element the last call put on the concatenated axis, and that axis
CatAxisElem == last.index[heap[last.self]._dim_cat + 1]
CatAxisPos == heap[last.self]._dim_cat + 1
CatAxisTotal == SumSeq(Extents(heap, last.self))

\* the last call returned one CatArray
ReturnedCat ==
    /\ last.exc = "none"
    /\ Len(last.ret) = 1
    /\ heap[last.ret[1]].kind = "cat"

(***************************************************************************)
(* C1: slice, permute, transpose, squeeze, unsqueeze, unbind, chunk and    *)
(* split never modify the view they are called on (nor any other object):  *)
(* whether the call returns or raises, every object keeps its attributes,  *)
(* and a successful call returns new views, distinct from every object     *)
(* that existed before the call.                                           *)
(***************************************************************************)
C1_ViewsNeverMutated ==
    [][ /\ Len(heap') >= Len(heap)
        /\ \A id \in 1..Len(heap) : heap'[id] = heap[id]
        /\ (last'.op \in ViewOps /\ last'.exc = "none") =>
              /\ \A k \in 1..Len(last'.ret) :
                    last'.ret[k] > Len(heap) /\ last'.ret[k] <= Len(heap')
              /\ \A j, k \in 1..Len(last'.ret) :
                    j # k => last'.ret[j] # last'.ret[k]
              /\ last'.op \in OneViewOps => Len(last'.ret) = 1 ]_vars

\* a permute returned a view whose shape differs from its receiver's
C1_Witness ==
    /\ last.op = "permute"
    /\ last.exc = "none"
    /\ heap[last.ret[1]].shape # heap[last.self].shape
    /\ heap[last.ret[1]]._shape = heap[last.self]._shape

(***************************************************************************)
(* C2: every CatArray returned by cat, slice or permute reports a shape    *)
(* that, on the concatenated axis, is the sum of its members' extents and, *)
(* on every other axis, is the extent all its members share.               *)
(***************************************************************************)
CatShapeLaw(h, c) ==
    LET n == Len(h[c].shape)
        p == PyPos(n, h[c]._dim_cat)
    IN /\ p # 0
       /\ \A k \in 1..Len(h[c]._arrays) :
             /\ Len(h[h[c]._arrays[k]].shape) = n
             /\ \A ax \in (1..n) \ {p} :
                   h[h[c]._arrays[k]].shape[ax] = h[c].shape[ax]
       /\ h[c].shape[p] =
             SumSeq([k \in 1..Len(h[c]._arrays) |-> h[h[c]._arrays[k]].shape[p]])

\* C2: the CatArray returned by cat, CatArray.slice or CatArray.permute obeys
\* the shape law
C2_CatShape ==
    (last.op \in {"cat", "slice", "permute"} /\ ReturnedCat)
        => CatShapeLaw(heap, last.ret[1])

(***************************************************************************)
(* C3: slicing a CatArray with a forward slice [a:b:step] on the           *)
(* concatenated axis (0 <= a <= b <= total, step >= 1) returns a CatArray  *)
(* whose members, read in order, hold exactly the global positions a,      *)
(* a+step, ... below b, each member sliced by its local sub-range.         *)
(***************************************************************************)
C3_ForwardSlice ==
    ( /\ CatAxisSliced
      /\ is_sliceaxis(CatAxisElem)
      /\ CatAxisElem.step \in 1..MaxStep
      /\ 0 <= CatAxisElem.start
      /\ CatAxisElem.start <= CatAxisElem.stop
      /\ CatAxisElem.stop <= CatAxisTotal )
    => /\ ReturnedCat
       /\ GlobalPositions(heap, last.self, heap[last.ret[1]]._arrays, CatAxisPos)
             = SlicePositions(CatAxisElem)

(***************************************************************************)
(* C4: slicing a CatArray with an integer g (0 <= g < total) on the        *)
(* concatenated axis returns a plain view of the one member that holds     *)
(* global position g, sliced at the local offset g minus the extents of    *)
(* the members before it.                                                  *)
(***************************************************************************)
C4_IntegerOnCatAxis ==
    ( /\ CatAxisSliced
      /\ is_droppedaxis(CatAxisElem)
      /\ 0 <= CatAxisElem.start
      /\ CatAxisElem.start < CatAxisTotal )
    => /\ last.exc = "none"
       /\ Len(last.ret) = 1
       /\ heap[last.ret[1]].kind = "arr"
       /\ Len(heap[last.ret[1]].shape) = Len(heap[last.self].shape) - 1
       /\ GlobalPositions(heap, last.self, last.ret, CatAxisPos)
             = <<CatAxisElem.start>>

(***************************************************************************)
(* C5: slicing a CatArray with a negative step on the concatenated axis    *)
(* returns a CatArray whose members, read in order, hold the selected      *)
(* global positions in descending order.                                   *)
(***************************************************************************)
C5_NegativeStep ==
    ( /\ CatAxisSliced
      /\ is_sliceaxis(CatAxisElem)
      /\ CatAxisElem.step < 0 )
    => /\ ReturnedCat
       /\ GlobalPositions(heap, last.self, heap[last.ret[1]]._arrays, CatAxisPos)
             = SlicePositions(ResolveSlice(CatAxisElem, CatAxisTotal))

(***************************************************************************)
(* C6: constructing a CatArray.  The arguments of the last cat call, and   *)
(* whether two members differ in rank or on an axis other than the         *)
(* concatenated one.                                                       *)
(***************************************************************************)
CatDim(call) == IF call.args[1] = None THEN 0 ELSE call.args[1]
CatMembers(call) == Tail(call.args)

ShapesDiffer(s, t, dim) ==
    \/ Len(s) # Len(t)
    \/ \E ax \in 1..Len(s) : ax # PyPos(Len(s), dim) /\ s[ax] # t[ax]

SomeMemberDiffers(h, call) ==
    \E j, k \in 1..Len(CatMembers(call)) :
        ShapesDiffer(h[CatMembers(call)[j]].shape,
                     h[CatMembers(call)[k]].shape, CatDim(call))

AxisLegal(h, call) ==
    \A k \in 1..Len(CatMembers(call)) :
        PyPos(Len(h[CatMembers(call)[k]].shape), CatDim(call)) # 0

\* C6 as stated: cat raises ValueError if and only if some member's shape
\* differs from another member's on an axis other than the concatenated one
C6_ValueErrorIffMismatch ==
    last.op = "cat" => (last.exc = "ValueError" <=> SomeMemberDiffers(heap, last))

\* C6 amended: when the concatenation axis is an axis of every member, cat
\* raises ValueError if and only if the list of members is empty or some
\* member's shape differs from another member's off the concatenated axis;
\* a raising call returns no CatArray, a returning call returns a new one over
\* the members given, and no object that existed before the call is modified.
C6_ConstructionCheck ==
    [][ last'.op = "cat" =>
          /\ AxisLegal(heap, last') =>
                (last'.exc = "ValueError"
                    <=> (CatMembers(last') = <<>> \/ SomeMemberDiffers(heap, last')))
          /\ ~AxisLegal(heap, last') => last'.exc = "IndexError"
          /\ Len(heap') >= Len(heap)
          /\ \A id \in 1..Len(heap) : heap'[id] = heap[id]
          /\ last'.exc # "none" => (last'.ret = <<>> /\ heap' = heap)
          /\ last'.exc = "none" =>
                /\ last'.ret = <<Len(heap) + 1>>
                /\ heap'[Len(heap) + 1].kind = "cat"
                /\ heap'[Len(heap) + 1]._arrays = CatMembers(last') ]_vars

\* cat raised ValueError for two members that differ off the concatenated axis
C6_Witness ==
    /\ last.op = "cat"
    /\ last.exc = "ValueError"
    /\ Len(CatMembers(last)) = 2
    /\ AxisLegal(heap, last)
    /\ SomeMemberDiffers(heap, last)

(***************************************************************************)
(* C7: set_data / set_fdata of a CatArray dispatches one write to each     *)
(* member, in order, member k receiving the rows [o_k, o_k + s_k) of the   *)
(* buffer along the concatenated axis and every other axis in full.        *)
(***************************************************************************)
C7_WritePieces ==
    (last.op \in {"set_data", "set_fdata"} /\ FreshCat(heap, last.self))
    => /\ last.exc = "none"
       /\ Len(last.writes) = Len(heap[last.self]._arrays)
       /\ \A k \in 1..Len(last.writes) :
             /\ last.writes[k].array = heap[last.self]._arrays[k]
             /\ last.writes[k].index =
                   SetAt(Full(Len(heap[last.self].shape)),
                         heap[last.self]._dim_cat + 1,
                         Slice(Offset(heap, last.self, k),
                               Offset(heap, last.self, k)
                                   + Extents(heap, last.self)[k],
                               None))

(***************************************************************************)
(* C8: permute(dims) of a CatArray, dims a permutation of its axes,        *)
(* returns a CatArray whose members are the members permuted by dims, in   *)
(* the same order, concatenated along the position j with dims[j] the old  *)
(* concatenated axis.                                                      *)
(***************************************************************************)
C8_CatPermute ==
    ( /\ last.op = "permute"
      /\ FreshCat(heap, last.self)
      /\ last.dims \in Perms(Len(heap[last.self].shape)) )
    => /\ ReturnedCat
       /\ Len(heap[last.ret[1]]._arrays) = Len(heap[last.self]._arrays)
       /\ last.dims[heap[last.ret[1]]._dim_cat + 1] = heap[last.self]._dim_cat
       /\ \A k \in 1..Len(heap[last.self]._arrays) :
             /\ heap[heap[last.ret[1]]._arrays[k]].fname
                   = heap[heap[last.self]._arrays[k]].fname
             /\ heap[heap[last.ret[1]]._arrays[k]].shape
                   = [j \in 1..Len(last.dims) |->
                        heap[heap[last.self]._arrays[k]].shape[last.dims[j] + 1]]

(***************************************************************************)
(* C9 (invariant I1): in every view the lengths of shape and of spatial    *)
(* equal the number of slicer entries that are not dropped axes (the       *)
(* number of on-disk axes for a view that was never sliced).               *)
(***************************************************************************)
KeptEntries(o) ==
    IF o.slicer.none THEN Len(o._shape)
    ELSE Cardinality({k \in 1..Len(o.slicer.idx) :
                         ~is_droppedaxis(o.slicer.idx[k])})

\* C9: after every call that returned, every view satisfies I1
C9_RankConsistent ==
    last.exc = "none" =>
        \A a \in Arrs : /\ Len(heap[a].shape) = Len(heap[a].spatial)
                        /\ Len(heap[a].shape) = KeptEntries(heap[a])

(***************************************************************************)
(* C10 (invariant I2): applying a view's slicer, then its permutation, to  *)
(* its on-disk shape reproduces its stored shape.                          *)
(***************************************************************************)
\* the extents of the entries of an index that are not dropped axes, in order
RECURSIVE KeptExtents(_)
KeptExtents(idx) ==
    IF idx = <<>> THEN <<>>
    ELSE IF is_droppedaxis(idx[1]) THEN KeptExtents(Tail(idx))
    ELSE IF is_newaxis(idx[1]) THEN <<1>> \o KeptExtents(Tail(idx))
    ELSE <<SliceLen(idx[1])>> \o KeptExtents(Tail(idx))

SlicerShape(o) ==
    IF o.slicer.none
    THEN [k \in 1..Len(o.permutation) |-> o._shape[o.permutation[k] + 1]]
    ELSE KeptExtents(o.slicer.idx)

\* C10: after every call that returned, every view's stored shape is the
\* shape its slicer and permutation derive from its on-disk shape
C10_ShapeFromSlicer ==
    last.exc = "none" => \A a \in Arrs : SlicerShape(heap[a]) = heap[a].shape

(***************************************************************************)
(* C11: after any sequence of slice calls, spatial[k] of the result is the *)
(* on-disk mask of the on-disk axis that current axis k derives from, and  *)
(* FALSE for an inserted axis; the call does not fail computing the mask.  *)
(***************************************************************************)
\* the mask a slicer derives from the on-disk mask: ax is the on-disk axis
\* that the first entry of idx that is not a new axis indexes
RECURSIVE MaskOfSlicer(_, _, _)
MaskOfSlicer(idx, ax, msk) ==
    IF idx = <<>> THEN <<>>
    ELSE IF is_newaxis(idx[1]) THEN <<FALSE>> \o MaskOfSlicer(Tail(idx), ax, msk)
    ELSE IF is_droppedaxis(idx[1]) THEN MaskOfSlicer(Tail(idx), ax + 1, msk)
    ELSE <<msk[ax]>> \o MaskOfSlicer(Tail(idx), ax + 1, msk)

\* the last call sliced a view with an index that its shape admits
SlicedWithLegalIndex ==
    /\ last.op = "slice"
    /\ heap[last.self].kind = "arr"
    /\ ~expand_index(last.index, heap[last.self].shape).err

\* C11: a slice with a legal index, in a program that only slices, returns a
\* view whose spatial mask is the one its slicer derives from the on-disk mask
C11_SpatialMask ==
    SlicedWithLegalIndex
    => /\ last.exc = "none"
       /\ heap[last.ret[1]].spatial
             = MaskOfSlicer(heap[last.ret[1]].slicer.idx, 1,
                            heap[last.ret[1]]._spatial)

(***************************************************************************)
(* C12 (invariant I3): the affine of a view is defined if and only if at   *)
(* least one spatial axis survives in the view, and then its dimension is  *)
(* the number of surviving spatial axes plus one.                          *)
(***************************************************************************)
\* the number of spatial axes of a view
NbSpatial(o) == Cardinality({k \in 1..Len(o.spatial) : o.spatial[k]})

\* the dimension of a defined affine: one column per spatial axis, plus one
AffineDim(o) == Len(o.affine.lin) + 1

\* the last call returned one view of a MappedArray
ReturnedView ==
    /\ last.exc = "none"
    /\ Len(last.ret) = 1
    /\ heap[last.ret[1]].kind = "arr"

\* C12: the view returned by slice or permute satisfies I3
C12_AffineDefined ==
    (last.op \in {"slice", "permute"} /\ ReturnedView)
    => /\ ~heap[last.ret[1]].affine.none <=> NbSpatial(heap[last.ret[1]]) >= 1
       /\ ~heap[last.ret[1]].affine.none
             => AffineDim(heap[last.ret[1]]) = NbSpatial(heap[last.ret[1]]) + 1

(***************************************************************************)
(* C13: MappedArray.permute(dims) raises ValueError, and nothing else,     *)
(* whenever dims is not a permutation of the current axes (wrong length, a *)
(* repeated entry, an entry outside [0, dim)), and returns no view.        *)
(***************************************************************************)
C13_PermuteRejects ==
    ( /\ last.op = "permute"
      /\ heap[last.self].kind = "arr"
      /\ last.dims \notin Perms(Len(heap[last.self].shape)) )
    => (last.exc = "ValueError" /\ last.ret = <<>>)

(***************************************************************************)
(* C14: for every view v of a MappedArray, never sliced or sliced, with or *)
(* without an affine, and every permutation p of its axes, v.permute(p)    *)
(* returns a view with shape[i] = v.shape[p[i]] and spatial[i] =           *)
(* v.spatial[p[i]]; transpose(a, b) is permute with a and b swapped.       *)
(***************************************************************************)
\* the identity order with positions a and b swapped (0-based)
Swapped(n, a, b) ==
    [k \in 1..n |-> IF k - 1 = a THEN b ELSE IF k - 1 = b THEN a ELSE k - 1]

\* the view returned by the last call is its receiver with the axes in order p
PermutedBy(p) ==
    /\ ReturnedView
    /\ heap[last.ret[1]].shape
          = [i \in 1..Len(p) |-> heap[last.self].shape[p[i] + 1]]
    /\ heap[last.ret[1]].spatial
          = [i \in 1..Len(p) |-> heap[last.self].spatial[p[i] + 1]]

C14_PermuteReorders ==
    /\ ( /\ last.op = "permute"
         /\ heap[last.self].kind = "arr"
         /\ last.dims \in Perms(Len(heap[last.self].shape)) )
       => PermutedBy(last.dims)
    /\ ( /\ last.op = "transpose"
         /\ heap[last.self].kind = "arr"
         /\ last.args[1] \in 0..(Len(heap[last.self].shape) - 1)
         /\ last.args[2] \in 0..(Len(heap[last.self].shape) - 1) )
       => PermutedBy(Swapped(Len(heap[last.self].shape), last.args[1], last.args[2]))

(***************************************************************************)
(* C15: squeeze called without an axis returns the view without its axes   *)
(* of extent 1, the others in order; squeeze naming an axis whose extent   *)
(* is not 1 raises ValueError and returns no view.                         *)
(***************************************************************************)
C15_Squeeze ==
    /\ ( /\ last.op = "squeeze"
         /\ heap[last.self].kind = "arr"
         /\ last.args \in {<<>>, <<None>>} )
       => /\ ReturnedView
          /\ heap[last.ret[1]].shape
                = SelectSeq(heap[last.self].shape, LAMBDA x : x # 1)
    /\ ( /\ last.op = "squeeze"
         /\ heap[last.self].kind = "arr"
         /\ Len(last.args) = 1
         /\ last.args[1] \in 0..(Len(heap[last.self].shape) - 1)
         /\ heap[last.self].shape[last.args[1] + 1] # 1 )
       => (last.exc = "ValueError" /\ last.ret = <<>>)

(***************************************************************************)
(* C16: split(sizes, axis) with a list of sizes raises ValueError if and   *)
(* only if the sizes do not sum to the extent of the axis; otherwise it    *)
(* returns one view per size, in order, view k covering the positions      *)
(* [c_k, c_k + sizes[k]) of the axis, c_k the sum of the earlier sizes.    *)
(***************************************************************************)
\* the arguments of the last split: the axis (as a position) and the sizes
SplitAxis == PyPos(Len(heap[last.self].shape), last.args[1])
SplitSizes == Tail(last.args)

\* view r is the receiver of the last call restricted, on axis p, to the n
\* positions from c on
CoversRange(r, p, c, n) ==
    /\ heap[r].kind = "arr"
    /\ heap[r].shape = SetAt(heap[last.self].shape, p, n)
    /\ heap[last.self].slicer.none
          => LocalPositions(heap[r], p) = [j \in 1..n |-> c + j - 1]

C16_SplitSizes ==
    ( /\ last.op = "splitlist"
      /\ heap[last.self].kind = "arr"
      /\ SplitAxis # 0 )
    => /\ last.exc = "ValueError"
             <=> SumSeq(SplitSizes) # heap[last.self].shape[SplitAxis]
       /\ SumSeq(SplitSizes) = heap[last.self].shape[SplitAxis]
             => /\ last.exc = "none"
                /\ Len(last.ret) = Len(SplitSizes)
                /\ \A k \in 1..Len(last.ret) :
                      CoversRange(last.ret[k], SplitAxis,
                                  SumFirst(SplitSizes, k - 1), SplitSizes[k])

(***************************************************************************)
(* C17: fdata with a destination type that is not floating point, and     *)
(* set_fdata with an input that is not floating point or whose shape is    *)
(* not the view's shape, raise TypeError before any call of the underlying *)
(* data / set_data.                                                        *)
(***************************************************************************)
C17_ScaledChecksFirst ==
    /\ (last.op = "fdata" /\ last.args = <<0>>)
       => (last.exc = "TypeError" /\ last.io = <<>>)
    /\ ( /\ last.op = "set_fdata"
         /\ heap[last.self].kind = "arr"
         /\ (last.args = <<0>> \/ last.dims # heap[last.self].shape) )
       => (last.exc = "TypeError" /\ last.io = <<>>)
    /\ (last.op \in {"fdata", "set_fdata"} /\ heap[last.self].kind = "arr")
       => (last.exc = "none" <=> last.io # <<>>)

\* set_fdata refused floating point data of the wrong shape
C17_Witness ==
    /\ last.op = "set_fdata"
    /\ heap[last.self].kind = "arr"
    /\ last.args = <<1>>
    /\ last.dims # heap[last.self].shape
    /\ last.exc = "TypeError"

(***************************************************************************)
(* C18: stack(views, axis) on n views of one shape S returns a CatArray    *)
(* concatenated along axis, of shape S with the extent n inserted at       *)
(* position axis, whose members are the views with an axis of extent 1     *)
(* inserted at that position.                                              *)
(***************************************************************************)
C18_Stack ==
    ( /\ last.op = "stack"
      /\ Len(CatMembers(last)) >= 1
      /\ \A k \in 1..Len(CatMembers(last)) :
            heap[CatMembers(last)[k]].shape = heap[CatMembers(last)[1]].shape
      /\ last.args[1] \in 0..Len(heap[CatMembers(last)[1]].shape) )
    => /\ ReturnedCat
       /\ heap[last.ret[1]]._dim_cat = last.args[1]
       /\ heap[last.ret[1]].shape
             = InsertAt(heap[CatMembers(last)[1]].shape, last.args[1] + 1,
                        Len(CatMembers(last)))
       /\ Len(heap[last.ret[1]]._arrays) = Len(CatMembers(last))
       /\ \A k \in 1..Len(CatMembers(last)) :
             /\ heap[heap[last.ret[1]]._arrays[k]].fname
                   = heap[CatMembers(last)[k]].fname
             /\ heap[heap[last.ret[1]]._arrays[k]].shape
                   = InsertAt(heap[CatMembers(last)[k]].shape, last.args[1] + 1, 1)

(***************************************************************************)
(* C19: slicing a view, never sliced or already sliced with dropped or     *)
(* inserted axes, with a full slice on every current axis succeeds and     *)
(* returns a view equal to it: same shape, same spatial mask, same affine  *)
(* and an equivalent slicer.                                               *)
(***************************************************************************)
\* the slicer of a view, that of a view never sliced being the full slices
SlicerOf(o) ==
    IF o.slicer.none THEN [k \in 1..Len(o._shape) |-> Slice(0, o._shape[k], 1)]
    ELSE o.slicer.idx

C19_IdentitySlice ==
    ( /\ last.op = "slice"
      /\ heap[last.self].kind = "arr"
      /\ last.index = Full(Len(heap[last.self].shape)) )
    => /\ ReturnedView
       /\ heap[last.ret[1]].shape = heap[last.self].shape
       /\ heap[last.ret[1]].spatial = heap[last.self].spatial
       /\ heap[last.ret[1]].affine = heap[last.self].affine
       /\ SlicerOf(heap[last.ret[1]]) = SlicerOf(heap[last.self])

(***************************************************************************)
(* C20: chunk(chunks, dim) takes chunks as the number of chunks: on an     *)
(* axis of extent N that chunks divides it returns exactly chunks views,   *)
(* contiguous and disjoint along dim, whose extents sum to N; split with   *)
(* an integer returns the same list.                                       *)
(***************************************************************************)
ChunkCount == last.args[1]
ChunkAxis == PyPos(Len(heap[last.self].shape), last.args[2])
ChunkExtent == heap[last.self].shape[ChunkAxis]

C20_ChunkCount ==
    ( /\ last.op \in {"chunk", "split"}
      /\ heap[last.self].kind = "arr"
      /\ ChunkAxis # 0
      /\ ChunkExtent % ChunkCount = 0 )
    => /\ last.exc = "none"
       /\ Len(last.ret) = ChunkCount
       /\ \A k \in 1..Len(last.ret) :
             CoversRange(last.ret[k], ChunkAxis,
                         (k - 1) * (ChunkExtent \div ChunkCount),
                         ChunkExtent \div ChunkCount)

(***************************************************************************)
(* C21: in CatArray.slice with a concatenation axis c >= 0, the index      *)
(* element taken for the concatenation axis is the (c+1)-th element of the *)
(* expanded index that is not a new axis, and when that element is a slice *)
(* the concatenation axis of the result is c, minus the integers to its    *)
(* left, plus the new axes to its left.                                    *)
(***************************************************************************)
\* the last call sliced a CatArray whose concatenation axis is one of its axes
CatSliced ==
    /\ last.op = "slice"
    /\ heap[last.self].kind = "cat"
    /\ heap[last.self]._dim_cat >= 0
    /\ heap[last.self]._dim_cat < Len(heap[last.self].shape)
    /\ ~expand_index(last.index, heap[last.self].shape).err

\* the index of the last call, expanded
CatExpanded == expand_index(last.index, heap[last.self].shape).index

\* the position in index of its n-th element that is not a new axis
NthOld(index, n) ==
    CHOOSE k \in 1..Len(index) :
        /\ ~is_newaxis(index[k])
        /\ Cardinality({j \in 1..k : ~is_newaxis(index[j])}) = n

\* the position in the expanded index of the element of the concatenation axis
CatTarget == NthOld(CatExpanded, heap[last.self]._dim_cat + 1)

\* the integers, and the new axes, left of position k of index
DroppedLeft(index, k) == Cardinality({j \in 1..(k - 1) : is_droppedaxis(index[j])})
NewLeft(index, k) == Cardinality({j \in 1..(k - 1) : is_newaxis(index[j])})

C21_CatAxisTracked ==
    CatSliced
    => /\ find_cat(CatExpanded, 1, heap[last.self]._dim_cat, 0 - 1,
                   heap[last.self]._dim_cat).map_dim_cat + 1 = CatTarget
       /\ (is_sliceaxis(CatExpanded[CatTarget]) /\ last.exc = "none")
             => /\ ReturnedCat
                /\ heap[last.ret[1]]._dim_cat
                      = heap[last.self]._dim_cat
                          - DroppedLeft(CatExpanded, CatTarget)
                          + NewLeft(CatExpanded, CatTarget)

\* a slice of a CatArray with an integer and a new axis left of the
\* concatenation axis returned a CatArray
C21_Witness ==
    /\ CatSliced
    /\ ReturnedCat
    /\ is_sliceaxis(CatExpanded[CatTarget])
    /\ DroppedLeft(CatExpanded, CatTarget) = 1
    /\ NewLeft(CatExpanded, CatTarget) = 1

(***************************************************************************)
(* C22: CatArray.slice never fails from its own bookkeeping: for an        *)
(* integer g with 0 <= g < total on the concatenation axis, and for a      *)
(* slice with 0 <= start <= stop <= total (start = stop included), neither *)
(* assertion fails, reading the last start offset raises no IndexError,    *)
(* and the walk over the members ends with as many start offsets and stop  *)
(* offsets as retained members.                                            *)
(***************************************************************************)
\* the last call put an in-bounds integer on the concatenation axis
InBoundsInteger ==
    /\ CatAxisSliced
    /\ is_droppedaxis(CatAxisElem)
    /\ 0 <= CatAxisElem.start
    /\ CatAxisElem.start < CatAxisTotal

\* the last call put an in-bounds forward slice on the concatenation axis
InBoundsSlice ==
    /\ CatAxisSliced
    /\ is_sliceaxis(CatAxisElem)
    /\ CatAxisElem.step \in 1..MaxStep
    /\ 0 <= CatAxisElem.start
    /\ CatAxisElem.start <= CatAxisElem.stop
    /\ CatAxisElem.stop <= CatAxisTotal

\* the walk over the members that the last call ran
WalkOfLast ==
    keep_walk(heap, heap[last.self]._arrays, 1, 0, <<>>, <<>>, <<>>, 0,
              CatAxisElem, heap[last.self]._dim_cat)

C22_NoBookkeepingFailure ==
    /\ (InBoundsInteger \/ InBoundsSlice)
          => last.exc \notin {"AssertionError", "IndexError"}
    /\ (InBoundsSlice /\ WalkOfLast.exc = "none")
          => /\ Len(WalkOfLast.starts) = Len(WalkOfLast.kept_arrays)
             /\ Len(WalkOfLast.stops) = Len(WalkOfLast.kept_arrays)

(***************************************************************************)
(* C23: MappedArray.set_fdata never modifies the caller's buffer: when the *)
(* intercept is not 0 or the slope is not 1 the subtraction and division   *)
(* are applied to a copy, and otherwise the caller's buffer itself goes to *)
(* set_data, unchanged; after the call, returning or raising, the caller's *)
(* buffer holds the values it held before.                                 *)
(***************************************************************************)
\* the last call was set_fdata on a MappedArray
SetFdataCalled == last.op = "set_fdata" /\ heap[last.self].kind = "arr"

\* the data that (inter, slope) = last.scale unscales last.dat to
Unscaled ==
    [k \in 1..Len(last.dat) |->
        (last.dat[k] - last.scale[1]) \div last.scale[2]]

C23_CallerBufferKept ==
    SetFdataCalled
    => /\ last.bufs[1] = last.dat
       /\ (last.exc = "none" /\ last.scale = <<0, 1>>)
             => (last.sent = 1 /\ last.bufs[last.sent] = last.dat)
       /\ (last.exc = "none" /\ last.scale # <<0, 1>>)
             => (last.sent # 1 /\ last.bufs[last.sent] = Unscaled)

\* set_fdata returned after it unscaled data with an intercept and a slope
C23_Witness ==
    /\ SetFdataCalled
    /\ last.exc = "none"
    /\ last.scale = <<2, 2>>
    /\ last.bufs[last.sent] = <<0, 2>>

====
